---- MODULE Spec2Model ----
(***************************************************************************)
(* Model of the concurrency primitives of mlightning (src/threading.h):    *)
(* the bounded WaitQueue (one mutex, one condition variable, an atomic     *)
(* end-wait flag) and the RoundRobin cursor.                               *)
(*                                                                         *)
(* WaitQueue: every thread is a caller of push(), pop() or endWait().  A   *)
(* step is the code a thread runs between two points where another thread  *)
(* can observe or change what it reads: taking the mutex and running to    *)
(* the return or to the call of condition_variable::wait; the atomic       *)
(* unlock-and-block of wait; the store to the atomic flag in endWait();    *)
(* the notify_all of endWait() (both done without the mutex).              *)
(***************************************************************************)
EXTENDS Integers, Sequences, FiniteSets

VARIABLES
    queueMaxSize,   \* WaitQueue::_queueMaxSize
    queue,          \* WaitQueue::_queue, front first
    endWait,        \* WaitQueue::_endWait
    mutex,          \* WaitQueue::_mutex: the thread holding it, or Free
    queueNotify,    \* WaitQueue::_queueNotify: the threads blocked in wait()
    pc,             \* where each thread stands in its call
    arg,            \* the value each producer is pushing
    ret,            \* each consumer's last pop(): its result, and what the
                    \* flag and the queue were when it returned
    nextVal,        \* the next fresh value a producer will push
    pushed,         \* log of the insertions, in the order they took effect
    popped,         \* log of the values handed out by pop(), in order
    container,      \* RoundRobin::_container
    position,       \* RoundRobin::_position, as an index into _container
    rrRet,          \* the result of the last RoundRobin::next()
    hist,           \* values yielded by next() since construction / remove()
    removed,        \* values passed to remove() so far
    initial,        \* the container the RoundRobin was constructed with
    tpTerminate,    \* ThreadPool::_terminate
    tpEndWait,      \* ThreadPool::_endWait
    workQueue,      \* ThreadPool::_workQueue, front first
    wpc,            \* where each thread of ThreadPool::_threads stands
    wfn,            \* the function each thread of the pool is running
    tpLog,          \* log of the queue() calls: the function and the flags then
    tpRan,          \* the functions the workers have run to their end
    tpNext,         \* the next fresh function a client will queue
    rpc,            \* where Loader::run stands
    threadsMax,     \* Loader::_threadsMax
    waterfall,      \* what ChunkDispatcher::getWaterFall returns
    wf,             \* Loader::_wf
    claimed,        \* log of the slots getNextPrep handed out, and to whom
    cur,            \* the slot each finalizer thread holds (prep in threadPrepQueue)
    ev,             \* per slot, the calls and returns of prep() and doLoad()
    returned,       \* number of threadPrepQueue calls that have returned
    queued,         \* loop counter i of the queueing loop in Loader::run
    inputFinished,  \* the input stage has processed all its segments
    runLog,         \* the calls Loader::run has made, in order
    cpc,            \* where the start of the program stands
    settings,       \* Loader::Settings, the fields process() works on
    hwc,            \* std::thread::hardware_concurrency() on this machine
    exitWhy,        \* the error the process ended on, "" if none
    exitCode,       \* the status given to exit(), 0 if it was not called
    created,        \* what the constructor and run() have created and started
    calls,          \* the cluster and connection calls setupLoad() has made
    stderr,         \* what setupLoad() has written to std::cerr
    poolStarted     \* threads the finalizer pool's constructor loop starts

wqVars == <<queueMaxSize, queue, endWait, mutex, queueNotify, pc, arg, ret,
            nextVal, pushed, popped>>
rrVars == <<container, position, rrRet, hist, removed, initial>>
tpVars == <<tpTerminate, tpEndWait, workQueue, wpc, wfn, tpLog, tpRan, tpNext>>
runVars == <<rpc, threadsMax, waterfall, wf, claimed, cur, ev, returned,
             queued, inputFinished, runLog>>
cfgVars == <<cpc, settings, hwc, exitWhy, exitCode, created, calls, stderr,
             poolStarted>>
vars == <<wqVars, rrVars, tpVars, runVars, cfgVars>>

(***************************************************************************)
(* Bounds of the model.                                                    *)
(***************************************************************************)
MaxCap == 2         \* capacities 1..MaxCap are explored
MaxPush == 4        \* number of push() calls made in one behaviour
MaxLen == 3         \* longest RoundRobin container
MaxCalls == 6       \* next() calls recorded after construction / remove()
MaxThreads == 2     \* finalizer pool sizes 1..MaxThreads are explored
MaxSlots == 3       \* longest waterfall list
MaxTasks == 3       \* number of ThreadPool::queue calls of a free client
MaxHw == 2          \* hardware_concurrency() returns 0..MaxHw
MaxCount == 2       \* largest count of a load queue document

Producers == {"p1", "p2"}
Consumers == {"c1", "c2"}
Enders == {"e1"}
Threads == Producers \cup Consumers \cup Enders
Elems == {"a", "b", "c"}

Free == "free"
NoValue == 0
NoRet == [returned |-> FALSE, ok |-> FALSE, val |-> NoValue,
          ended |-> FALSE, empty |-> FALSE]

NoElem == "none"
NoRRRet == [called |-> FALSE, ok |-> FALSE, val |-> NoElem]

Range(s) == {s[i] : i \in 1..Len(s)}

(***************************************************************************)
(* WaitQueue                                                               *)
(***************************************************************************)

\* A full() that lets one element too many in.
fullOffByOne == Len(queue) > queueMaxSize

full == Len(queue) >= queueMaxSize

\* An emplace that turns a producer away once endWait() was called.
emplaceRejectLate(q, v) == IF endWait THEN q ELSE Append(q, v)

emplace(q, v) == Append(q, v)

\* A front() that reads the wrong end of the queue.
back(q) == q[Len(q)]

front(q) == Head(q)

\* A consumer predicate that never waits.
PopPredNoWait == TRUE

\* pop()'s wait predicate.
PopPred == queue # <<>> \/ endWait

\* push()'s wait predicate.
PushPred == ~full

\* The sets of waiters a notify call may release.
notify_none == {{}}
notify_one == IF queueNotify = {} THEN {{}} ELSE {{w} : w \in queueNotify}
notify_all == {queueNotify}

\* push(): which notify follows an insertion into a queue of queueSize.
PushNotify(queueSize) ==
    IF queueSize = 0 THEN notify_one
    ELSE IF queueSize = 1 THEN notify_all
    ELSE notify_none

\* pop(): which notify precedes the removal, tolimit slots being free.
PopNotify(tolimit) ==
    IF tolimit = 0 THEN notify_one
    ELSE IF tolimit = 1 THEN notify_all
    ELSE notify_none

\* tolimit of pop(): an unsigned (size_t) difference, which would wrap
\* rather than go negative; the queue never holds more than _queueMaxSize
\* (C1), so the width of the wrap is immaterial and a narrow one is used.
ToLimit == (queueMaxSize - Len(queue)) % (2 ^ 16)

\* Thread self moves to newpc while the threads of W leave the wait set.
Wake(W, self, newpc) ==
    /\ queueNotify' = queueNotify \ W
    /\ pc' = [t \in Threads |->
                IF t = self THEN newpc
                ELSE IF t \in W THEN "woken" ELSE pc[t]]

\* One entry of the insertion log.
PushEvent(v, waited) == [val |-> v, waited |-> waited, late |-> endWait]

\* What a returning pop() leaves with its caller: value is written only on
\* success.
PopResult(ok, v) ==
    [returned |-> TRUE, ok |-> ok, val |-> v,
     ended |-> endWait, empty |-> (queue = <<>>)]

InitWQ ==
    /\ queueMaxSize \in 1..MaxCap
    /\ queue = <<>>
    /\ endWait = FALSE
    /\ mutex = Free
    /\ queueNotify = {}
    /\ pc = [t \in Threads |-> "idle"]
    /\ arg = [p \in Producers |-> NoValue]
    /\ ret = [c \in Consumers |-> NoRet]
    /\ nextVal = 1
    /\ pushed = <<>>
    /\ popped = <<>>

InitRRIdle ==
    /\ container = <<>>
    /\ position = 1
    /\ rrRet = NoRRRet
    /\ hist = <<>>
    /\ removed = {}
    /\ initial = <<>>

AllWorkers == 1..MaxThreads
AllSlots == 1..MaxSlots
NoFn == 0
NoSlot == 0

\* No ThreadPool has been constructed.
InitTPIdle ==
    /\ tpTerminate = FALSE
    /\ tpEndWait = FALSE
    /\ workQueue = <<>>
    /\ wpc = [w \in AllWorkers |-> "none"]
    /\ wfn = [w \in AllWorkers |-> NoFn]
    /\ tpLog = <<>>
    /\ tpRan = {}
    /\ tpNext = 1

\* Loader::run is not running.
InitRunIdle ==
    /\ rpc = "off"
    /\ threadsMax = 1
    /\ waterfall = <<>>
    /\ wf = <<>>
    /\ claimed = <<>>
    /\ cur = [w \in AllWorkers |-> NoSlot]
    /\ ev = [s \in AllSlots |-> <<>>]
    /\ returned = 0
    /\ queued = 0
    /\ inputFinished = FALSE
    /\ runLog = <<>>

\* A Settings on which process() has not been called.
NoSettings ==
    [sharded |-> FALSE, hashed |-> FALSE, shardKeysBson |-> <<>>,
     loadQueueBson |-> <<>>, loadQueues |-> <<>>, chunksPerShard |-> 0,
     threadsIn |-> 1, threads |-> 1, stopBalancer |-> FALSE]

\* The program's start is not part of this specification.
InitCfgIdle ==
    /\ cpc = "off"
    /\ settings = NoSettings
    /\ hwc = 1
    /\ exitWhy = ""
    /\ exitCode = 0
    /\ created = {}
    /\ calls = <<>>
    /\ stderr = <<>>
    /\ poolStarted = 0

Init == InitWQ /\ InitRRIdle /\ InitTPIdle /\ InitRunIdle /\ InitCfgIdle

\* push(v), from the call to its return or to its wait: the lock is taken;
\* either the value goes in at once, with the notify its position asks for,
\* or the queue is full and the producer is about to wait.
PushCall(p) ==
    /\ pc[p] = "idle"
    /\ nextVal <= MaxPush
    /\ mutex = Free
    /\ arg' = [arg EXCEPT ![p] = nextVal]
    /\ nextVal' = nextVal + 1
    /\ IF ~full
       THEN /\ queue' = emplace(queue, nextVal)
            /\ pushed' = IF queue' = queue THEN pushed
                         ELSE Append(pushed, PushEvent(nextVal, FALSE))
            /\ \E W \in PushNotify(Len(queue)) : Wake(W, p, "idle")
            /\ UNCHANGED mutex
       ELSE /\ mutex' = p
            /\ pc' = [pc EXCEPT ![p] = "enterwait"]
            /\ UNCHANGED <<queue, pushed, queueNotify>>
    /\ UNCHANGED <<queueMaxSize, endWait, ret, popped, rrVars, tpVars, runVars,
                   cfgVars>>

\* condition_variable::wait in push(): unlock and block, atomically.
PushWait(p) ==
    /\ pc[p] = "enterwait"
    /\ mutex = p
    /\ mutex' = Free
    /\ queueNotify' = queueNotify \cup {p}
    /\ pc' = [pc EXCEPT ![p] = "waiting"]
    /\ UNCHANGED <<queueMaxSize, queue, endWait, arg, ret, nextVal, pushed,
                   popped, rrVars, tpVars, runVars, cfgVars>>

\* push() after a wake-up: the lock is taken again and the predicate tested;
\* the value goes in without any notify, or the producer waits again.
PushWake(p) ==
    /\ pc[p] = "woken"
    /\ mutex = Free
    /\ IF PushPred
       THEN /\ queue' = emplace(queue, arg[p])
            /\ pushed' = IF queue' = queue THEN pushed
                         ELSE Append(pushed, PushEvent(arg[p], TRUE))
            /\ pc' = [pc EXCEPT ![p] = "idle"]
            /\ UNCHANGED mutex
       ELSE /\ mutex' = p
            /\ pc' = [pc EXCEPT ![p] = "enterwait"]
            /\ UNCHANGED <<queue, pushed>>
    /\ UNCHANGED <<queueMaxSize, endWait, queueNotify, arg, ret, nextVal,
                   popped, rrVars, tpVars, runVars, cfgVars>>

\* pop() with the lock just taken: the predicate is tested; the consumer
\* returns (false on an empty queue, else the front element, after the
\* notify the free room asks for), or is about to wait.
PopBody(c) ==
    /\ mutex = Free
    /\ IF PopPred
       THEN IF queue = <<>>
            THEN /\ ret' = [ret EXCEPT ![c] = PopResult(FALSE, ret[c].val)]
                 /\ pc' = [pc EXCEPT ![c] = "idle"]
                 /\ UNCHANGED <<queue, popped, queueNotify, mutex>>
            ELSE /\ ret' = [ret EXCEPT ![c] = PopResult(TRUE, front(queue))]
                 /\ popped' = Append(popped, front(queue))
                 /\ \E W \in PopNotify(ToLimit) : Wake(W, c, "idle")
                 /\ queue' = Tail(queue)
                 /\ UNCHANGED mutex
       ELSE /\ mutex' = c
            /\ pc' = [pc EXCEPT ![c] = "enterwait"]
            /\ UNCHANGED <<queue, popped, queueNotify, ret>>
    /\ UNCHANGED <<queueMaxSize, endWait, arg, nextVal, pushed, rrVars, tpVars, runVars,
                   cfgVars>>

\* A consumer calls pop(value).
PopCall(c) ==
    /\ pc[c] = "idle"
    /\ PopBody(c)

\* condition_variable::wait in pop(): unlock and block, atomically.
PopWait(c) ==
    /\ pc[c] = "enterwait"
    /\ mutex = c
    /\ mutex' = Free
    /\ queueNotify' = queueNotify \cup {c}
    /\ pc' = [pc EXCEPT ![c] = "waiting"]
    /\ UNCHANGED <<queueMaxSize, queue, endWait, arg, ret, nextVal, pushed,
                   popped, rrVars, tpVars, runVars, cfgVars>>

\* pop() after a wake-up: the lock is taken again and the predicate tested.
PopWake(c) ==
    /\ pc[c] = "woken"
    /\ PopBody(c)

\* endWait(), first half: the store to the atomic flag, mutex not taken.
EndWaitSet(e) ==
    /\ pc[e] = "idle"
    /\ endWait' = TRUE
    /\ pc' = [pc EXCEPT ![e] = "notify"]
    /\ UNCHANGED <<queueMaxSize, queue, mutex, queueNotify, arg, ret, nextVal,
                   pushed, popped, rrVars, tpVars, runVars, cfgVars>>

\* endWait(), second half: notify_all, mutex not taken.
EndWaitNotify(e) ==
    /\ pc[e] = "notify"
    /\ \E W \in notify_all : Wake(W, e, "idle")
    /\ UNCHANGED <<queueMaxSize, queue, endWait, mutex, arg, ret, nextVal,
                   pushed, popped, rrVars, tpVars, runVars, cfgVars>>

\* condition_variable::wait may return without any notify.
SpuriousWake(t) ==
    /\ t \in queueNotify
    /\ queueNotify' = queueNotify \ {t}
    /\ pc' = [pc EXCEPT ![t] = "woken"]
    /\ UNCHANGED <<queueMaxSize, queue, endWait, mutex, arg, ret, nextVal,
                   pushed, popped, rrVars, tpVars, runVars, cfgVars>>

Next ==
    \/ \E p \in Producers : PushCall(p)
    \/ \E p \in Producers : PushWait(p)
    \/ \E p \in Producers : PushWake(p)
    \/ \E c \in Consumers : PopCall(c)
    \/ \E c \in Consumers : PopWait(c)
    \/ \E c \in Consumers : PopWake(c)
    \/ \E e \in Enders : EndWaitSet(e)
    \/ \E e \in Enders : EndWaitNotify(e)
    \/ \E t \in Threads : SpuriousWake(t)

Spec == Init /\ [][Next]_vars

\* A thread inside a call keeps running: it completes wait's unlock-and-block
\* and endWait()'s notify_all, and a woken thread that finds the mutex free
\* again and again does get it in the end.  Nothing forces a thread to make
\* a call, nor a wait to return spuriously.
Fairness ==
    /\ \A p \in Producers : WF_vars(PushWait(p)) /\ SF_vars(PushWake(p))
    /\ \A c \in Consumers : WF_vars(PopWait(c)) /\ SF_vars(PopWake(c))
    /\ \A e \in Enders : WF_vars(EndWaitNotify(e))

FairSpec == Init /\ [][Next]_vars /\ Fairness

(***************************************************************************)
(* Properties of the WaitQueue                                             *)
(***************************************************************************)

LogVals(log) == [i \in 1..Len(log) |-> log[i].val]

WaitingProducers == Producers \cap queueNotify
WaitingConsumers == Consumers \cap queueNotify

\* The step is producer p's push() returning.
PushReturns(p) ==
    \/ pc[p] = "woken" /\ pc'[p] = "idle"
    \/ /\ pc[p] = "idle" /\ pc'[p] = "idle"
       /\ nextVal' = nextVal + 1 /\ arg'[p] = nextVal

\* C1: the number of queued elements never exceeds the capacity the queue
\* was built with, whatever the interleaving of producers and consumers.
C1_CapacityBound == Len(queue) <= queueMaxSize

\* C1 witness: of two producers woken from a full wait, one has filled the
\* queue again and the other is still to retest the predicate.
C1_Witness ==
    /\ pushed # <<>>
    /\ pushed[Len(pushed)].waited
    /\ Len(queue) = queueMaxSize
    /\ \E p \in Producers : pc[p] = "woken"

\* C2 (as claimed): a pop() from a full queue on which a producer is blocked
\* releases a blocked producer; its wake-up never goes to a consumer.
C2_PopWakesProducer ==
    [][(Len(queue') < Len(queue) /\ full /\ WaitingProducers # {})
        => \E p \in WaitingProducers : p \notin queueNotify']_vars

\* C3 (as claimed): a push() that puts an element into an empty queue on
\* which a consumer is blocked releases a blocked consumer, on either path
\* of push().
C3_PushWakesConsumer ==
    [][(Len(queue') > Len(queue) /\ queue = <<>> /\ WaitingConsumers # {})
        => \E c \in WaitingConsumers : c \notin queueNotify']_vars

\* C4 (as claimed): once endWait() has set the flag, every consumer that is
\* inside pop() eventually returns.
C4_EndWaitReleases ==
    \A c \in Consumers : (endWait /\ pc[c] # "idle") ~> (pc[c] = "idle")

\* C5: pop() returns false only with the flag set and the queue empty at
\* the return; on a non-empty queue it returns true with an element, also
\* after endWait(); it never returns on an empty queue with the flag unset.
C5_PopResult ==
    \A c \in Consumers :
        ret[c].returned =>
            /\ ~ret[c].ok => (ret[c].ended /\ ret[c].empty)
            /\ ~ret[c].empty => (ret[c].ok /\ ret[c].val \in Range(LogVals(pushed)))
            /\ ~(ret[c].empty /\ ~ret[c].ended)

\* C5 witness: with the flag set one consumer was handed an element and
\* another got the terminal false.
C5_Witness ==
    \E c, d \in Consumers :
        /\ ret[c].returned /\ ret[c].ok /\ ret[c].ended
        /\ ret[d].returned /\ ~ret[d].ok

\* C6: the values handed out by pop(), in order, followed by the values still
\* queued, are exactly the values inserted, in insertion order: the pops are
\* a prefix of the pushes, nothing is lost, duplicated or reordered.
C6_Fifo == LogVals(pushed) = popped \o queue

\* C6 witness: a value inserted by a producer that had waited on a full
\* queue has been popped, after at least one other.
C6_Witness ==
    /\ Len(popped) >= 2
    /\ \E i \in 1..Len(popped) : pushed[i].waited

\* C7 (as claimed): once endWait() has been called no push() changes the
\* queue content.
C7_LateRejected == [][endWait => Len(queue') <= Len(queue)]_vars

\* C7 (amended): a push() that returns after endWait() was called has
\* appended its value at the tail of the queue, like any other push().
C7_LateAccepted ==
    [][\A p \in Producers :
        (endWait /\ PushReturns(p)) => queue' = Append(queue, arg'[p])]_vars

\* C7 witness: a value inserted after endWait() has been returned by pop().
C7_Witness ==
    \E i \in 1..Len(pushed) : pushed[i].late /\ pushed[i].val \in Range(popped)

\* C8 (as claimed): no producer waits on the condition variable while a
\* consumer waits on it.
C8_DisjointWaitSets == ~(WaitingProducers # {} /\ WaitingConsumers # {})

(***************************************************************************)
(* RoundRobin                                                              *)
(***************************************************************************)

\* The containers a RoundRobin may be built over (a deque may repeat values).
AllSeqs(n) == UNION {[1..k -> Elems] : k \in 0..n}

\* A wrap that comes one element early, never reaching the last one.
advanceWrapEarly(pos, n) == IF pos + 1 >= n THEN 1 ELSE pos + 1

\* next(): ++_position, and back to begin() on reaching end().
advance(pos, n) == IF pos + 1 = n + 1 THEN 1 ELSE pos + 1

\* An erase of the first instance only.
eraseFirst(s, x) ==
    IF x \notin Range(s) THEN s
    ELSE LET i == CHOOSE k \in 1..Len(s) :
                    s[k] = x /\ \A m \in 1..(k - 1) : s[m] # x
         IN SubSeq(s, 1, i - 1) \o SubSeq(s, i + 1, Len(s))

\* remove(): erase(std::remove(begin, end, value), end) keeps, in order, the
\* elements that differ from value.
RECURSIVE eraseRemove(_, _)
eraseRemove(s, x) ==
    IF s = <<>> THEN <<>>
    ELSE IF Head(s) = x THEN eraseRemove(Tail(s), x)
    ELSE <<Head(s)>> \o eraseRemove(Tail(s), x)

\* An init that puts the cursor on the last element.
initLast == Len(container)

\* init(): _position = _container.begin().
init == 1

InitRR ==
    /\ InitWQ
    /\ InitTPIdle
    /\ InitRunIdle
    /\ InitCfgIdle
    /\ queueMaxSize = 1
    /\ container \in AllSeqs(MaxLen)
    /\ initial = container
    /\ position = init
    /\ rrRet = NoRRRet
    /\ hist = <<>>
    /\ removed = {}

\* next(ret): false on an empty container, ret untouched; else the cursor
\* moves on and the element under it is copied out.
RRNext ==
    /\ Len(hist) < MaxCalls
    /\ IF container = <<>>
       THEN /\ rrRet' = [rrRet EXCEPT !.called = TRUE, !.ok = FALSE]
            /\ UNCHANGED <<position, hist>>
       ELSE /\ position' = advance(position, Len(container))
            /\ rrRet' = [called |-> TRUE, ok |-> TRUE, val |-> container[position']]
            /\ hist' = Append(hist, container[position'])
    /\ UNCHANGED <<container, removed, initial, wqVars, tpVars, runVars, cfgVars>>

\* remove(value): every instance goes, then init(). The variable the
\* caller passes to next() keeps what it holds.
RRRemove(x) ==
    /\ container' = eraseRemove(container, x)
    /\ position' = init
    /\ removed' = removed \cup {x}
    /\ hist' = <<>>
    /\ rrRet' = [NoRRRet EXCEPT !.val = rrRet.val]
    /\ UNCHANGED <<initial, wqVars, tpVars, runVars, cfgVars>>

NextRR ==
    \/ RRNext
    \/ \E x \in Elems : RRRemove(x)

SpecRR == InitRR /\ [][NextRR]_vars

(***************************************************************************)
(* Properties of the RoundRobin                                            *)
(***************************************************************************)

Distinct(s) == \A i, j \in 1..Len(s) : i # j => s[i] # s[j]

\* How often x occurs in s[i..j].
Count(x, s, i, j) == Cardinality({m \in i..j : s[m] = x})

\* C9: over distinct elements and with no remove() in between, any k
\* consecutive next() calls yield each element floor(k/n) or ceil(k/n) times,
\* each call yielding the successor of the element before, the first element
\* following the last.
C9_RoundRobinFair ==
    (container # <<>> /\ Distinct(container)) =>
        LET n == Len(container) IN
        /\ \A i \in 1..Len(hist) : \A j \in i..Len(hist) : \A m \in 1..n :
              LET k == j - i + 1 IN
              Count(container[m], hist, i, j) \in {k \div n, (k + n - 1) \div n}
        /\ \A i \in 1..(Len(hist) - 1) : \E m \in 1..n :
              hist[i] = container[m] /\ hist[i + 1] = container[(m % n) + 1]

\* C9 witness: a cursor over three distinct elements has gone round more
\* than once.
C9_Witness ==
    /\ Len(container) = 3
    /\ Distinct(container)
    /\ Len(hist) >= 5

\* C10: next() never yields a removed value; what remains is what the cursor
\* was built with less the removed values, and n calls yield all of it; on a
\* container emptied by remove() next() returns false.
C10_Removal ==
    /\ \A i \in 1..Len(hist) : hist[i] \notin removed
    /\ Range(container) = Range(initial) \ removed
    /\ Len(hist) >= Len(container) => Range(container) \subseteq Range(hist)
    /\ rrRet.called => (rrRet.ok <=> container # <<>>)

\* C10 witness: after a value with two instances was removed, next() has
\* gone round the elements that remain.
C10_Witness ==
    /\ \E x \in removed : Count(x, initial, 1, Len(initial)) = 2
    /\ container # <<>>
    /\ Len(hist) >= Len(container)

\* C10 witness of the emptied container: next() was called on it.
C10_WitnessEmptied ==
    /\ initial # <<>>
    /\ container = <<>>
    /\ rrRet.called

(***************************************************************************)
(* ThreadPool (src/threading.h) and the finalize phase of Loader::run      *)
(* (src/loader.cpp).  The pool's worker loop, ThreadPool::_workLoop, is    *)
(* only declared in threading.h; it is modelled after the specification of *)
(* the pool's two flags: with endWait the queue is drained and the worker  *)
(* stops, with terminate the worker stops as soon as it can.               *)
(***************************************************************************)

\* size_t of the pool's constructor argument, narrowed.
SizeMod == 16

\* ThreadPool::ThreadPool(size): do { push_back(thread) } while (--size);
\* the number of threads pushed.
RECURSIVE poolLoop(_, _)
poolLoop(started, size) ==
    LET left == (size - 1) % SizeMod
    IN IF left = 0 THEN started + 1 ELSE poolLoop(started + 1, left)

\* A queue() that refuses work once a flag is set.
tpEnqueueRejectLate(q, f) == IF tpEndWait \/ tpTerminate THEN q ELSE Append(q, f)

\* ThreadPool::queue: _workQueue.push_back(func).
tpEnqueue(q, f) == Append(q, f)

\* One entry of the log of queue() calls.
QueueEvent(f) == [fn |-> f, late |-> (tpEndWait \/ tpTerminate)]

\* A getNextPrep that hands out the last slot.
wfBack(q) == q[Len(q)]

\* Loader::getNextPrep: _wf.front().
wfFront(q) == Head(q)

\* A getNextPrep that leaves the slot in the list.
wfKeep(q) == q

\* Loader::getNextPrep: _wf.pop_front().
wfPopFront(q) == Tail(q)

\* ThreadPool::joinAll returns once every thread of the pool has ended.
joinAllDone == \A w \in AllWorkers : wpc[w] \in {"none", "exited"}

\* A run() that shuts the end points down before joining the finalizers.
runOrderShutdownFirst ==
    <<"inputRun", "setEndPoints", "newPool", "getWaterFall", "wait", "queue",
      "endWaitInitiate", "gracefulShutdownJoin", "joinAll">>

\* A run() that queues the finalizers before waiting for the input.
runOrderQueueFirst ==
    <<"inputRun", "setEndPoints", "newPool", "getWaterFall", "queue", "wait",
      "endWaitInitiate", "joinAll", "gracefulShutdownJoin">>

\* The calls of Loader::run, in program order.
runOrder ==
    <<"inputRun", "setEndPoints", "newPool", "getWaterFall", "wait", "queue",
      "endWaitInitiate", "joinAll", "gracefulShutdownJoin">>

\* Which call follows `label` in run().
RunAfter(label) ==
    LET i == CHOOSE k \in 1..Len(runOrder) : runOrder[k] = label
    IN IF i = Len(runOrder) THEN "done" ELSE runOrder[i + 1]

\* run() makes the call `label` and moves on.
RunDoes(label) ==
    /\ rpc = label
    /\ rpc' = RunAfter(label)
    /\ runLog' = Append(runLog, label)

Called(label) == label \in Range(runLog)

\* The calls and returns a slot sees when it is finalized once.
FullEv == <<"prep", "prepRet", "doLoad", "doLoadRet">>

\* Where a worker starts in the function it took: Loader::run queues
\* threadPrepQueue, a free client queues functions of its own.
FnEntry == IF rpc = "off" THEN "run" ELSE "get"

InitRun ==
    /\ InitWQ
    /\ queueMaxSize = 1
    /\ InitRRIdle
    /\ InitTPIdle
    /\ InitCfgIdle
    /\ rpc = runOrder[1]
    /\ threadsMax \in 0..MaxThreads
    /\ waterfall \in {[i \in 1..n |-> i] : n \in 0..MaxSlots}
    /\ wf = <<>>
    /\ claimed = <<>>
    /\ cur = [w \in AllWorkers |-> NoSlot]
    /\ ev = [s \in AllSlots |-> <<>>]
    /\ returned = 0
    /\ queued = 0
    /\ inputFinished = FALSE
    /\ runLog = <<>>

\* inputProcessor->run(): the input stage starts.
RunInputRun ==
    /\ RunDoes("inputRun")
    /\ UNCHANGED <<threadsMax, waterfall, wf, claimed, cur, ev, returned,
                   queued, inputFinished, wqVars, rrVars, tpVars, cfgVars>>

\* The input stage comes to the end of its segments.
InputFinish ==
    /\ Called("inputRun")
    /\ ~inputFinished
    /\ inputFinished' = TRUE
    /\ UNCHANGED <<rpc, runLog, threadsMax, waterfall, wf, claimed, cur, ev,
                   returned, queued, wqVars, rrVars, tpVars, cfgVars>>

\* setEndPoints(): the end-point pool starts.
RunSetEndPoints ==
    /\ RunDoes("setEndPoints")
    /\ UNCHANGED <<threadsMax, waterfall, wf, claimed, cur, ev, returned,
                   queued, inputFinished, wqVars, rrVars, tpVars, cfgVars>>

\* tools::ThreadPool tpFinalize(finalizeThreads): the constructor's loop
\* starts poolLoop(0, size) threads. A count past every limit of the system
\* (the loop entered with size 0) ends in the exception of std::thread,
\* which leaves run().
RunNewPool ==
    /\ rpc = "newPool"
    /\ IF poolLoop(0, threadsMax) \in AllWorkers
       THEN /\ rpc' = RunAfter("newPool")
            /\ runLog' = Append(runLog, "newPool")
            /\ wpc' = [w \in AllWorkers |->
                         IF w <= poolLoop(0, threadsMax) THEN "idle" ELSE "none"]
       ELSE /\ rpc' = "threw"
            /\ UNCHANGED <<runLog, wpc>>
    /\ UNCHANGED <<threadsMax, waterfall, wf, claimed, cur, ev, returned,
                   queued, inputFinished, wqVars, rrVars, tpTerminate,
                   tpEndWait, workQueue, wfn, tpLog, tpRan, tpNext, cfgVars>>

\* _wf = _chunkDispatch->getWaterFall().
RunGetWaterFall ==
    /\ RunDoes("getWaterFall")
    /\ wf' = waterfall
    /\ UNCHANGED <<threadsMax, waterfall, claimed, cur, ev, returned, queued,
                   inputFinished, wqVars, rrVars, tpVars, cfgVars>>

\* inputProcessor->wait() returns when the input stage has finished.
RunWait ==
    /\ inputFinished
    /\ RunDoes("wait")
    /\ UNCHANGED <<threadsMax, waterfall, wf, claimed, cur, ev, returned,
                   queued, inputFinished, wqVars, rrVars, tpVars, cfgVars>>

\* for (i = 0; i < finalizeThreads; i++) tpFinalize.queue(threadPrepQueue).
RunQueue ==
    /\ rpc = "queue"
    /\ IF queued < threadsMax
       THEN /\ workQueue' = tpEnqueue(workQueue, tpNext)
            /\ tpLog' = Append(tpLog, QueueEvent(tpNext))
            /\ tpNext' = tpNext + 1
            /\ queued' = queued + 1
            /\ UNCHANGED <<rpc, runLog>>
       ELSE /\ rpc' = RunAfter("queue")
            /\ runLog' = Append(runLog, "queue")
            /\ UNCHANGED <<workQueue, tpLog, tpNext, queued>>
    /\ UNCHANGED <<threadsMax, waterfall, wf, claimed, cur, ev, returned,
                   inputFinished, wqVars, rrVars, tpTerminate, tpEndWait, wpc,
                   wfn, tpRan, cfgVars>>

\* tpFinalize.endWaitInitiate().
RunEndWaitInitiate ==
    /\ RunDoes("endWaitInitiate")
    /\ tpEndWait' = TRUE
    /\ UNCHANGED <<threadsMax, waterfall, wf, claimed, cur, ev, returned,
                   queued, inputFinished, wqVars, rrVars, tpTerminate,
                   workQueue, wpc, wfn, tpLog, tpRan, tpNext, cfgVars>>

\* tpFinalize.joinAll().
RunJoinAll ==
    /\ joinAllDone
    /\ RunDoes("joinAll")
    /\ UNCHANGED <<threadsMax, waterfall, wf, claimed, cur, ev, returned,
                   queued, inputFinished, wqVars, rrVars, tpVars, cfgVars>>

\* _endPoints->gracefulShutdownJoin().
RunGracefulShutdownJoin ==
    /\ RunDoes("gracefulShutdownJoin")
    /\ UNCHANGED <<threadsMax, waterfall, wf, claimed, cur, ev, returned,
                   queued, inputFinished, wqVars, rrVars, tpVars, cfgVars>>

\* _workLoop: a worker takes the function at the front of the queue.
WorkerTake(w) ==
    /\ wpc[w] = "idle"
    /\ ~tpTerminate
    /\ workQueue # <<>>
    /\ wfn' = [wfn EXCEPT ![w] = Head(workQueue)]
    /\ workQueue' = Tail(workQueue)
    /\ wpc' = [wpc EXCEPT ![w] = FnEntry]
    /\ UNCHANGED <<tpTerminate, tpEndWait, tpLog, tpRan, tpNext, runVars,
                   wqVars, rrVars, cfgVars>>

\* _workLoop: a worker ends on terminate, or on endWait with nothing queued.
WorkerExit(w) ==
    /\ wpc[w] = "idle"
    /\ tpTerminate \/ (tpEndWait /\ workQueue = <<>>)
    /\ wpc' = [wpc EXCEPT ![w] = "exited"]
    /\ UNCHANGED <<tpTerminate, tpEndWait, workQueue, wfn, tpLog, tpRan,
                   tpNext, runVars, wqVars, rrVars, cfgVars>>

\* threadPrepQueue: getNextPrep() under _prepSetMutex; nullptr ends the loop
\* and the function returns to the worker loop.
FGetNextPrep(w) ==
    /\ wpc[w] = "get"
    /\ IF wf = <<>>
       THEN /\ wpc' = [wpc EXCEPT ![w] = "idle"]
            /\ tpRan' = tpRan \cup {wfn[w]}
            /\ returned' = returned + 1
            /\ UNCHANGED <<wf, claimed, cur>>
       ELSE /\ cur' = [cur EXCEPT ![w] = wfFront(wf)]
            /\ claimed' = Append(claimed, [slot |-> wfFront(wf), by |-> w])
            /\ wf' = wfPopFront(wf)
            /\ wpc' = [wpc EXCEPT ![w] = "prep"]
            /\ UNCHANGED <<tpRan, returned>>
    /\ UNCHANGED <<tpTerminate, tpEndWait, workQueue, wfn, tpLog, tpNext, rpc,
                   threadsMax, waterfall, ev, queued, inputFinished, runLog,
                   wqVars, rrVars, cfgVars>>

\* A finalizer thread moves from `from` to `to`, its slot seeing `what`.
FStep(w, from, to, what) ==
    /\ wpc[w] = from
    /\ wpc' = [wpc EXCEPT ![w] = to]
    /\ ev' = [ev EXCEPT ![cur[w]] = Append(@, what)]
    /\ UNCHANGED <<tpTerminate, tpEndWait, workQueue, wfn, tpLog, tpRan,
                   tpNext, rpc, threadsMax, waterfall, wf, claimed, cur,
                   returned, queued, inputFinished, runLog, wqVars, rrVars,
                   cfgVars>>

\* threadPrepQueue: prep->prep() is called, returns; prep->doLoad() is
\* called, returns, and the loop goes round.
FPrepCall(w) == FStep(w, "prep", "inPrep", "prep")
FPrepRet(w) == FStep(w, "inPrep", "load", "prepRet")
FLoadCall(w) == FStep(w, "load", "inLoad", "doLoad")
FLoadRet(w) == FStep(w, "inLoad", "get", "doLoadRet")

NextRun ==
    \/ RunInputRun
    \/ InputFinish
    \/ RunSetEndPoints
    \/ RunNewPool
    \/ RunGetWaterFall
    \/ RunWait
    \/ RunQueue
    \/ RunEndWaitInitiate
    \/ RunJoinAll
    \/ RunGracefulShutdownJoin
    \/ \E w \in AllWorkers : WorkerTake(w)
    \/ \E w \in AllWorkers : WorkerExit(w)
    \/ \E w \in AllWorkers : FGetNextPrep(w)
    \/ \E w \in AllWorkers : FPrepCall(w)
    \/ \E w \in AllWorkers : FPrepRet(w)
    \/ \E w \in AllWorkers : FLoadCall(w)
    \/ \E w \in AllWorkers : FLoadRet(w)

SpecRun == InitRun /\ [][NextRun]_vars

(***************************************************************************)
(* Properties of the finalize phase                                        *)
(***************************************************************************)

\* The slots handed out so far, in order.
ClaimedSlots == [i \in 1..Len(claimed) |-> claimed[i].slot]

\* The threads slot s was handed to.
ClaimedBy(s) == {claimed[i].by : i \in {k \in 1..Len(claimed) : claimed[k].slot = s}}

\* s is a proper-or-equal prefix of t.
IsPrefix(s, t) == Len(s) <= Len(t) /\ \A i \in 1..Len(s) : s[i] = t[i]

\* No finalizer thread is inside threadPrepQueue.
NoneInside == \A w \in AllWorkers : wpc[w] \in {"none", "idle", "exited"}

\* C11: getNextPrep hands every slot of the waterfall to exactly one thread,
\* and that thread calls prep() and then doLoad() on it exactly once, the
\* second after the first has returned: a slot is never handed out twice,
\* what it has seen is always a prefix of prep, return, doLoad, return, and
\* once a threadPrepQueue call has returned and none is in progress every
\* slot has been handed out and has seen all four.
C11_ExactlyOnce ==
    /\ \A i, j \in 1..Len(claimed) : claimed[i].slot = claimed[j].slot => i = j
    /\ \A s \in AllSlots :
          /\ IsPrefix(ev[s], FullEv)
          /\ ev[s] # <<>> => s \in Range(ClaimedSlots)
          /\ \A w \in AllWorkers : cur[w] = s => ClaimedBy(s) = {w}
    /\ (returned > 0 /\ NoneInside) =>
          \A s \in Range(waterfall) :
              Cardinality(ClaimedBy(s)) = 1 /\ ev[s] = FullEv

\* C11 witness: two threads have shared the slots of the waterfall between
\* them and every slot has been prepared and loaded.
C11_Witness ==
    /\ returned > 0
    /\ NoneInside
    /\ \E i, j \in 1..Len(claimed) : claimed[i].by # claimed[j].by
    /\ \A s \in Range(waterfall) : ev[s] = FullEv

\* C12: getNextPrep hands the slots out in waterfall order: the slots handed
\* out, followed by the slots still listed, are the waterfall; so when a
\* slot's prep() starts every earlier slot has been handed to some thread.
C12_PullOrder ==
    /\ Called("getWaterFall") => ClaimedSlots \o wf = waterfall
    /\ \A j \in 1..Len(waterfall) :
          ev[waterfall[j]] # <<>> =>
              \A i \in 1..j : waterfall[i] \in Range(ClaimedSlots)

\* C12 witness: a later slot is being prepared while an earlier one, handed
\* to another thread, has not started yet.
C12_Witness ==
    \E i, j \in 1..Len(claimed) :
        /\ i < j
        /\ claimed[i].by # claimed[j].by
        /\ ev[claimed[i].slot] = <<>>
        /\ ev[claimed[j].slot] # <<>>

\* C13: a finalizer thread leaves threadPrepQueue only with the waterfall
\* list empty, and when gracefulShutdownJoin is called on the end points the
\* finalizer pool has been joined, all its threads have ended and every slot
\* of the waterfall has had its prep() and doLoad() return.
C13_ShutdownOrder ==
    /\ returned > 0 => wf = <<>>
    /\ Called("gracefulShutdownJoin") =>
          /\ Called("joinAll")
          /\ \A w \in AllWorkers : wpc[w] \in {"none", "exited"}
          /\ \A s \in Range(waterfall) : ev[s] = FullEv

\* C13 witness: the end points are shut down after two finalizer threads
\* have worked through a waterfall of several slots.
C13_Witness ==
    /\ Called("gracefulShutdownJoin")
    /\ Len(waterfall) >= 2
    /\ \E i, j \in 1..Len(claimed) : claimed[i].by # claimed[j].by

\* C14 (as claimed): the waterfall is requested only after
\* inputProcessor->wait() has returned.
C14_WaterfallAfterWait == Called("getWaterFall") => Called("wait")

\* C14 (amended): the waterfall is requested before inputProcessor->wait()
\* is called; what comes after wait() has returned is the queueing of the
\* finalizers, so no slot is taken from the list before that.
C14_FinalizeAfterWait ==
    /\ rpc = "wait" => Called("getWaterFall")
    /\ Called("wait") => Called("getWaterFall")
    /\ (tpLog # <<>> \/ claimed # <<>>) => Called("wait")

\* C14 witness: run() stands at wait() with the waterfall already taken, the
\* input stage still running.
C14_Witness == rpc = "wait" /\ wf # <<>> /\ ~inputFinished

\* C14 witness of the finalizers: slots are being taken after wait().
C14_WitnessClaimed == claimed # <<>> /\ Called("wait")

(***************************************************************************)
(* ThreadPool used by a free client: queue(), endWaitInitiate() and        *)
(* terminateInitiate() called in any order.                                *)
(***************************************************************************)

\* The sizes the client constructs the pool with.
PoolSizes == 1..MaxThreads

\* ThreadPool::ThreadPool(size).
InitTP ==
    /\ InitWQ
    /\ queueMaxSize = 1
    /\ InitRRIdle
    /\ InitRunIdle
    /\ InitCfgIdle
    /\ tpTerminate = FALSE
    /\ tpEndWait = FALSE
    /\ workQueue = <<>>
    /\ \E size \in PoolSizes :
          wpc = [w \in AllWorkers |->
                   IF w <= poolLoop(0, size) THEN "idle" ELSE "none"]
    /\ wfn = [w \in AllWorkers |-> NoFn]
    /\ tpLog = <<>>
    /\ tpRan = {}
    /\ tpNext = 1

\* ThreadPool::queue(func): push_back under _workMutex, notify_one.
TPQueue ==
    /\ tpNext <= MaxTasks
    /\ workQueue' = tpEnqueue(workQueue, tpNext)
    /\ tpLog' = Append(tpLog, QueueEvent(tpNext))
    /\ tpNext' = tpNext + 1
    /\ UNCHANGED <<tpTerminate, tpEndWait, wpc, wfn, tpRan, runVars, wqVars,
                   rrVars, cfgVars>>

\* ThreadPool::endWaitInitiate().
TPEndWaitInitiate ==
    /\ ~tpEndWait
    /\ tpEndWait' = TRUE
    /\ UNCHANGED <<tpTerminate, workQueue, wpc, wfn, tpLog, tpRan, tpNext,
                   runVars, wqVars, rrVars, cfgVars>>

\* ThreadPool::terminateInitiate().
TPTerminateInitiate ==
    /\ ~tpTerminate
    /\ tpTerminate' = TRUE
    /\ tpEndWait' = TRUE
    /\ UNCHANGED <<workQueue, wpc, wfn, tpLog, tpRan, tpNext, runVars,
                   wqVars, rrVars, cfgVars>>

\* _workLoop: the function the worker took returns.
WorkerFinish(w) ==
    /\ wpc[w] = "run"
    /\ wpc' = [wpc EXCEPT ![w] = "idle"]
    /\ tpRan' = tpRan \cup {wfn[w]}
    /\ UNCHANGED <<tpTerminate, tpEndWait, workQueue, wfn, tpLog, tpNext,
                   runVars, wqVars, rrVars, cfgVars>>

NextTP ==
    \/ TPQueue
    \/ TPEndWaitInitiate
    \/ TPTerminateInitiate
    \/ \E w \in AllWorkers : WorkerTake(w)
    \/ \E w \in AllWorkers : WorkerFinish(w)
    \/ \E w \in AllWorkers : WorkerExit(w)

SpecTP == InitTP /\ [][NextTP]_vars

\* The functions some worker has taken and not finished.
InWorker == {wfn[w] : w \in {v \in AllWorkers : wpc[v] = "run"}}

\* The functions queue() was called with after a flag was set.
LateFns == {tpLog[i].fn : i \in {k \in 1..Len(tpLog) : tpLog[k].late}}

\* ThreadPool::~ThreadPool: the condition the destructor asserts.
dtorAssert == (tpEndWait /\ ~tpTerminate) => Len(workQueue) = 0

\* C17 (as claimed): once endWaitInitiate() or terminateInitiate() has been
\* called, a function passed to queue() is not added to the work queue and
\* is never run.
C17_LateRefused ==
    \A f \in LateFns : f \notin Range(workQueue) /\ f \notin InWorker /\ f \notin tpRan

\* C17 (amended): queue() reads neither flag: whatever function it is given,
\* before or after endWaitInitiate() or terminateInitiate(), is appended to
\* the work queue, and stays there until a worker takes it; the functions
\* in the queue and with the workers are in the order queue() got them.
C17_LateQueued ==
    /\ \A i \in 1..Len(tpLog) :
          tpLog[i].fn \in Range(workQueue) \cup InWorker \cup tpRan
    /\ \A i, j \in 1..Len(workQueue) : i < j => workQueue[i] < workQueue[j]

\* C17 witness: a function queued after endWaitInitiate() sits in the work
\* queue with every worker gone, so the destructor's assertion would fail.
C17_Witness ==
    /\ \E f \in LateFns : f \in Range(workQueue)
    /\ \A w \in AllWorkers : wpc[w] \in {"none", "exited"}
    /\ ~dtorAssert

\* C17 witness of a late function that was run.
C17_WitnessRan == \E f \in LateFns : f \in tpRan

(***************************************************************************)
(* WaitQueue: the wake policy of push() on its two paths                   *)
(***************************************************************************)

\* The threads a step releases from the condition variable.
Released == queueNotify \ queueNotify'

\* C20 (as claimed): an insertion that takes the queue from 0 to 1 elements
\* releases one of the threads waiting on the condition variable and an
\* insertion that takes it from 1 to 2 elements releases all of them,
\* whether the producer inserted at once or had first waited on a full queue.
C20_PushWakePolicy ==
    [][(Len(queue') = Len(queue) + 1 /\ queueNotify # {}) =>
          /\ Len(queue) = 0 => Cardinality(Released) = 1
          /\ Len(queue) = 1 => Released = queueNotify]_vars

(***************************************************************************)
(* The start of the program: Settings::process, Loader::Loader with        *)
(* setupLoad, and the first calls of Loader::run. The program's main, the  *)
(* cluster and the connection classes are not among the sources: main is   *)
(* taken to call process(), construct the Loader and call run(), in that   *)
(* order, and the cluster's answers are inputs.                            *)
(***************************************************************************)

EXIT_FAILURE == 1

\* One field of the shard key document: a direction, or "hashed".
KeyDir(n) == [hashed |-> FALSE, int |-> n]
KeyHashed == [hashed |-> TRUE, int |-> 0]

ShardKeyDocs ==
    {<<>>, <<KeyDir(1)>>, <<KeyDir(-1)>>, <<KeyDir(2)>>, <<KeyHashed>>,
     <<KeyHashed, KeyDir(1)>>, <<KeyDir(1), KeyDir(-1)>>,
     <<KeyDir(-1), KeyHashed>>, <<KeyHashed, KeyHashed>>,
     <<KeyHashed, KeyDir(0)>>}

\* shardKeyJson: the empty string, or a document.
ShardKeyArgs ==
    {[keyJsonEmpty |-> TRUE, keys |-> <<>>]} \cup
    {[keyJsonEmpty |-> FALSE, keys |-> k] : k \in ShardKeyDocs}

\* The strategies ChunkBatchFactory::verifyKey recognises.
Strategies == {"ram", "direct", "disk"}
verifyKey(name) == name \in Strategies

\* One field of the load queue document.
LoadFields ==
    [name : {"ram", "direct", "nosuch"}, isNumber : {TRUE},
     count : -1..MaxCount]
    \cup [name : {"ram"}, isNumber : {FALSE}, count : {0}]

\* loadQueueJson: documents of up to two fields of different names.
LoadDocs ==
    {<<>>} \cup {<<f>> : f \in LoadFields}
    \cup {<<f[1], f[2]>> : f \in {g \in LoadFields \X LoadFields :
                                      g[1].name # g[2].name}}

\* The thread counts given on the command line.
ThreadArgs == (0 - MaxHw - 1)..MaxThreads

\* What process() is given.
Inputs ==
    {[sharded |-> sh, keyJsonEmpty |-> k.keyJsonEmpty, keys |-> k.keys,
      load |-> l, threads |-> t, connOk |-> c, stopBalancer |-> b[1],
      directLoad |-> b[2]] :
        sh \in BOOLEAN, k \in ShardKeyArgs, l \in LoadDocs,
        t \in ThreadArgs, c \in BOOLEAN, b \in BOOLEAN \X BOOLEAN}

\* process(): the loop over the fields of the shard key.
RECURSIVE keyLoop(_, _, _)
keyLoop(keys, i, hashed) ==
    IF i > Len(keys) THEN [err |-> "", hashed |-> hashed]
    ELSE IF keys[i].hashed THEN keyLoop(keys, i + 1, TRUE)
    ELSE IF keys[i].int # 1 /\ keys[i].int # -1
         THEN [err |-> "unknownKeyValue", hashed |-> hashed]
    ELSE keyLoop(keys, i + 1, hashed)

\* A check that refuses no key.
hashedCheckNever(hashed, count) == FALSE

\* process(): if (hashed && count > 1), the key is refused.
hashedCheck(hashed, count) == hashed /\ count > 1

\* process(): the checks of a sharded setup.
shardKeyPhase(in) ==
    IF ~in.sharded THEN [err |-> "", hashed |-> FALSE]
    ELSE IF in.keyJsonEmpty THEN [err |-> "noShardKey", hashed |-> FALSE]
    ELSE LET r == keyLoop(in.keys, 1, FALSE)
         IN IF r.err # "" THEN r
            ELSE IF hashedCheck(r.hashed, Len(in.keys))
                 THEN [err |-> "hashedMulti", hashed |-> TRUE]
            ELSE r

\* A loop that pushes the name once for a positive count.
pushLoopOnce(acc, name, queueCount, n) ==
    IF queueCount < n THEN Append(acc, name) ELSE acc

\* process(): for (queueCount = 0; queueCount < load.Int(); ++queueCount)
\*                loadQueues.push_back(load.fieldName()).
RECURSIVE pushLoop(_, _, _, _)
pushLoop(acc, name, queueCount, n) ==
    IF queueCount < n
    THEN pushLoop(Append(acc, name), name, queueCount + 1, n)
    ELSE acc

\* process(): the loop over the fields of the load queue document.
RECURSIVE loadLoop(_, _, _)
loadLoop(doc, i, acc) ==
    IF i > Len(doc) THEN [err |-> "", q |-> acc]
    ELSE IF ~verifyKey(doc[i].name) THEN [err |-> "noSuchQueue", q |-> acc]
    ELSE IF ~doc[i].isNumber THEN [err |-> "notNumber", q |-> acc]
    ELSE loadLoop(doc, i + 1, pushLoop(acc, doc[i].name, 0, doc[i].count))

\* process(): the load queues, and the check that there is one.
loadQueuePhase(doc) ==
    LET r == loadLoop(doc, 1, <<>>)
    IN IF r.err # "" THEN r
       ELSE IF Len(r.q) < 1 THEN [err |-> "noLoadQueues", q |-> r.q]
       ELSE r

\* process(): the thread count.
threadsPhase(threads, hw) ==
    IF threads = 0 THEN [err |-> "", threads |-> hw * 2]
    ELSE IF threads < 0
         THEN LET t == hw + threads
              IN [err |-> IF t < 1 THEN "threads" ELSE "", threads |-> t]
    ELSE [err |-> "", threads |-> threads]

\* Settings::process(): the checks in program order; the first that fails
\* ends the process, the fields set before it keeping their values.
process(in, hw) ==
    LET k == shardKeyPhase(in)
        l == loadQueuePhase(in.load)
        t == threadsPhase(in.threads, hw)
        s0 == [NoSettings EXCEPT !.sharded = in.sharded,
                                 !.threadsIn = in.threads,
                                 !.threads = in.threads,
                                 !.stopBalancer = in.stopBalancer,
                                 !.hashed = k.hashed,
                                 !.shardKeysBson =
                                     IF in.sharded /\ ~in.keyJsonEmpty
                                     THEN in.keys ELSE <<>>]
        s1 == [s0 EXCEPT !.loadQueueBson = in.load, !.loadQueues = l.q]
        s2 == [s1 EXCEPT !.chunksPerShard = Len(l.q), !.threads = t.threads]
        s3 == [s2 EXCEPT !.stopBalancer = in.stopBalancer \/ in.directLoad]
    IN IF k.err # "" THEN [err |-> k.err, s |-> s0]
       ELSE IF l.err # "" THEN [err |-> l.err, s |-> s1]
       ELSE IF t.err # "" THEN [err |-> t.err, s |-> s2]
       ELSE IF ~in.connOk THEN [err |-> "connstr", s |-> s3]
       ELSE [err |-> "", s |-> s3]

\* The errors process() ends the process on.
ProcessErrors ==
    {"noShardKey", "unknownKeyValue", "hashedMulti", "noSuchQueue",
     "notNumber", "noLoadQueues", "threads", "connstr"}

\* A constructor that sets the load up last.
ctorOrderSetupLast ==
    <<"loadCluster", "newEndPoints", "newChunkDispatch", "setupLoad">>

\* Loader::Loader: the calls of the constructor's body, in program order.
ctorOrder == <<"setupLoad", "loadCluster", "newEndPoints", "newChunkDispatch">>

\* main: the Loader is constructed from the processed settings, and run()
\* is called on the constructed Loader.
AfterProcess == ctorOrder[1]
AfterCtor == runOrder[1]

\* Which call follows `label` in the constructor.
CtorAfter(label) ==
    LET i == CHOOSE k \in 1..Len(ctorOrder) : ctorOrder[k] = label
    IN IF i = Len(ctorOrder) THEN AfterCtor ELSE ctorOrder[i + 1]

\* What the cluster and the connection answer during setupLoad().
Answers ==
    [isSharded : BOOLEAN, connectOk : BOOLEAN, balancerStuck : BOOLEAN,
     enable : {"ok", "failOk0", "failOkN"}, shardColl : BOOLEAN]

\* A setupLoad that gives up on a failed enableSharding whose reply has
\* ok != 0.
enableFailureExits(reply) == IF reply = "failOkN" THEN "exit" ELSE "continue"

\* setupLoad(): after a failed enableSharding the reply is printed if its
\* ok is not 0, info is reset, and the function goes on.
enableFailure(reply) == "continue"

\* setupLoad(): what a failed enableSharding writes to std::cerr.
enableMessage(reply) ==
    IF reply = "failOkN" THEN <<"Sharding db failed">> ELSE <<>>

SetupEnd(out, why, c, e) == [out |-> out, why |-> why, calls |-> c, err |-> e]

\* Loader::setupLoad(): how it ends, the calls it has made by then and
\* what it has printed.
setupLoad(s, a) ==
    LET c1 == <<"isSharded">>
        c2 == c1 \o (IF s.stopBalancer THEN <<"balancerStop">> ELSE <<>>)
                 \o <<"connect">>
        c3 == c2 \o (IF s.stopBalancer THEN <<"stopBalancerWait">> ELSE <<>>)
        c4 == c3 \o <<"enableSharding">>
        e4 == IF a.enable = "ok" THEN <<>> ELSE enableMessage(a.enable)
        c5 == c4 \o <<"shardCollection">>
    IN IF s.sharded /\ ~a.isSharded THEN SetupEnd("exit", "notSharded", c1, <<>>)
       ELSE IF ~a.isSharded THEN SetupEnd("threw", "logic_error", c1, <<>>)
       ELSE IF ~a.connectOk THEN SetupEnd("exit", "connect", c2, <<>>)
       ELSE IF s.stopBalancer /\ a.balancerStuck
            THEN SetupEnd("exit", "balancer", c3, <<>>)
       ELSE IF ~s.sharded THEN SetupEnd("done", "", c3, <<>>)
       ELSE IF a.enable # "ok" /\ enableFailure(a.enable) = "exit"
            THEN SetupEnd("exit", "enableSharding", c4, e4)
       ELSE IF ~(s.chunksPerShard > 0) THEN SetupEnd("assert", "assert", c4, e4)
       ELSE IF ~a.shardColl
            THEN SetupEnd("exit", "shardCollection", c5,
                          e4 \o <<"Sharding collection failed">>)
       ELSE SetupEnd("done", "", c5, e4)

\* The errors setupLoad() ends the process on.
SetupErrors == {"notSharded", "connect", "balancer", "shardCollection"}

InitCfg ==
    /\ InitWQ
    /\ queueMaxSize = 1
    /\ InitRRIdle
    /\ InitTPIdle
    /\ InitRunIdle
    /\ cpc = "process"
    /\ settings = NoSettings
    /\ hwc \in 0..MaxHw
    /\ exitWhy = ""
    /\ exitCode = 0
    /\ created = {}
    /\ calls = <<>>
    /\ stderr = <<>>
    /\ poolStarted = 0

\* main calls settings.process().
Process ==
    /\ cpc = "process"
    /\ \E in \in Inputs :
          LET r == process(in, hwc)
          IN /\ settings' = r.s
             /\ exitWhy' = r.err
             /\ exitCode' = IF r.err # "" THEN EXIT_FAILURE ELSE 0
             /\ cpc' = IF r.err # "" THEN "exit" ELSE AfterProcess
    /\ UNCHANGED <<hwc, created, calls, stderr, poolStarted, wqVars, rrVars,
                   tpVars, runVars>>

\* Loader::Loader calls setupLoad(); _threadsMax was set from
\* _settings.threads when the members were initialised.
CtorSetupLoad ==
    /\ cpc = "setupLoad"
    /\ threadsMax' = settings.threads % SizeMod
    /\ \E a \in Answers :
          LET r == setupLoad(settings, a)
          IN /\ calls' = r.calls
             /\ stderr' = r.err
             /\ exitWhy' = r.why
             /\ exitCode' = IF r.out = "exit" THEN EXIT_FAILURE ELSE 0
             /\ cpc' = IF r.out = "done" THEN CtorAfter("setupLoad") ELSE r.out
    /\ UNCHANGED <<settings, hwc, created, poolStarted, wqVars, rrVars,
                   tpVars, rpc, waterfall, wf, claimed, cur, ev, returned,
                   queued, inputFinished, runLog>>

\* Loader::Loader: _mCluster.loadCluster(), _endPoints.reset(...),
\* _chunkDispatch.reset(...); run(): inputProcessor->run(), setEndPoints().
StartStep(label, next) ==
    /\ cpc = label
    /\ created' = created \cup {label}
    /\ cpc' = next
    /\ UNCHANGED <<settings, hwc, exitWhy, exitCode, calls, stderr,
                   poolStarted, wqVars, rrVars, tpVars, runVars>>

CtorLoadCluster == StartStep("loadCluster", CtorAfter("loadCluster"))
CtorNewEndPoints == StartStep("newEndPoints", CtorAfter("newEndPoints"))
CtorNewChunkDispatch ==
    StartStep("newChunkDispatch", CtorAfter("newChunkDispatch"))
StartInputRun == StartStep("inputRun", RunAfter("inputRun"))
StartSetEndPoints == StartStep("setEndPoints", RunAfter("setEndPoints"))

\* run(): tools::ThreadPool tpFinalize(finalizeThreads): the constructor's
\* loop goes round poolLoop(0, size) times.
StartNewPool ==
    /\ cpc = "newPool"
    /\ created' = created \cup {"newPool"}
    /\ poolStarted' = poolLoop(0, threadsMax)
    /\ cpc' = "running"
    /\ UNCHANGED <<settings, hwc, exitWhy, exitCode, calls, stderr, wqVars,
                   rrVars, tpVars, runVars>>

NextCfg ==
    \/ Process
    \/ CtorSetupLoad
    \/ CtorLoadCluster
    \/ CtorNewEndPoints
    \/ CtorNewChunkDispatch
    \/ StartInputRun
    \/ StartSetEndPoints
    \/ StartNewPool

SpecCfg == InitCfg /\ [][NextCfg]_vars

(***************************************************************************)
(* Properties of the start of the program                                  *)
(***************************************************************************)

\* The end-point pool, the chunk dispatcher, and the threads run() starts.
Pipeline ==
    {"newEndPoints", "newChunkDispatch", "inputRun", "setEndPoints", "newPool"}

\* C15: when process() or setupLoad() ends the process on one of its fatal
\* errors, the exit status is not zero and neither the end-point pool nor
\* the chunk dispatcher has been created, nor any thread of the input, the
\* end points or the finalizers started; the same when setupLoad() throws.
\* Whatever of the pipeline exists was created after setupLoad() had made
\* its calls without an error, on settings with at least one load queue.
C15_FatalBeforePipeline ==
    /\ cpc = "exit" =>
          /\ exitWhy \in ProcessErrors \cup SetupErrors
          /\ exitCode # 0
    /\ exitWhy # "" =>
          /\ cpc \in {"exit", "threw"}
          /\ created \cap Pipeline = {}
          /\ poolStarted = 0
    /\ created \cap Pipeline # {} =>
          /\ "connect" \in Range(calls)
          /\ settings.sharded => "shardCollection" \in Range(calls)
          /\ settings.chunksPerShard >= 1
          /\ settings.loadQueues # <<>>

\* C15 witness: the last of the fatal errors, a failed shardCollection,
\* after every earlier check has passed.
C15_Witness ==
    /\ cpc = "exit"
    /\ exitWhy = "shardCollection"
    /\ "enableSharding" \in Range(calls)

\* C15 witness of the empty load queue document.
C15_WitnessEmptyDoc ==
    cpc = "exit" /\ exitWhy = "noLoadQueues" /\ settings.loadQueueBson = <<>>

\* C16 (as claimed): when enableSharding fails with ok != 0 in its reply,
\* the process exits with failure and shardCollection is not called.
C16_EnableFailureFatal ==
    "Sharding db failed" \in Range(stderr) =>
        /\ cpc = "exit"
        /\ exitCode # 0
        /\ "shardCollection" \notin Range(calls)

\* C16 (amended): when enableSharding fails with ok != 0 in its reply, the
\* reply is written to std::cerr and setupLoad() goes on: shardCollection
\* is called, and the process exits in setupLoad() only if that call fails.
\* No exit is due to enableSharding.
C16_EnableFailureReported ==
    /\ exitWhy # "enableSharding"
    /\ "Sharding db failed" \in Range(stderr) =>
          /\ "shardCollection" \in Range(calls)
          /\ exitWhy \in {"", "shardCollection"}
          /\ cpc = "exit" <=> exitWhy = "shardCollection"

\* C16 witness: the pipeline runs after a failed enableSharding.
C16_Witness == "Sharding db failed" \in Range(stderr) /\ cpc = "running"

\* The thread count the rule gives for the argument v.
ThreadRule(v, hw) ==
    IF v = 0 THEN 2 * hw ELSE IF v < 0 THEN hw - (0 - v) ELSE v

\* process() has returned.
Survived == cpc # "process" /\ exitWhy \notin ProcessErrors

\* C18 (as claimed): settings that survive process() have the thread count
\* of the rule, which is at least 1, and the finalizer pool starts that
\* many threads; an exit on the thread count is an exit on a count below 1.
C18_ThreadRule ==
    /\ Survived =>
          /\ settings.threads = ThreadRule(settings.threadsIn, hwc)
          /\ settings.threads >= 1
          /\ "newPool" \in created => poolStarted = settings.threads
    /\ exitWhy = "threads" => ThreadRule(settings.threadsIn, hwc) < 1

\* The fields of a document are of recognised strategies, with numbers.
Recognised(doc) ==
    \A i \in 1..Len(doc) : verifyKey(doc[i].name) /\ doc[i].isNumber

RECURSIVE SumCounts(_)
SumCounts(doc) ==
    IF doc = <<>> THEN 0 ELSE Head(doc).count + SumCounts(Tail(doc))

RECURSIVE SumPositive(_)
SumPositive(doc) ==
    IF doc = <<>> THEN 0
    ELSE (IF Head(doc).count > 0 THEN Head(doc).count ELSE 0)
         + SumPositive(Tail(doc))

\* Each name as often as its count, a count of zero or less giving nothing.
RECURSIVE Expansion(_)
Expansion(doc) ==
    IF doc = <<>> THEN <<>>
    ELSE [k \in 1..Head(doc).count |-> Head(doc).name] \o Expansion(Tail(doc))

\* process() has come to the load queue document.
PastKeys ==
    /\ cpc # "process"
    /\ exitWhy \notin {"noShardKey", "unknownKeyValue", "hashedMulti"}

\* C19 (as claimed): for a document of recognised strategies with numeric
\* counts chunksPerShard is the sum of the counts, and the configuration is
\* rejected exactly when that sum is below one.
C19_SumOfCounts ==
    (PastKeys /\ Recognised(settings.loadQueueBson)) =>
        /\ exitWhy = "noLoadQueues" <=> SumCounts(settings.loadQueueBson) < 1
        /\ exitWhy # "noLoadQueues" =>
              settings.chunksPerShard = SumCounts(settings.loadQueueBson)

\* C19 (amended): a count of zero or less gives no queue: chunksPerShard is
\* the sum of the positive counts, loadQueues lists each name as often as
\* its positive count in the order of the document, and the configuration
\* is rejected exactly when no count is positive.
C19_SumOfPositiveCounts ==
    (PastKeys /\ Recognised(settings.loadQueueBson)) =>
        /\ exitWhy = "noLoadQueues" <=> SumPositive(settings.loadQueueBson) < 1
        /\ settings.loadQueues = Expansion(settings.loadQueueBson)
        /\ exitWhy # "noLoadQueues" =>
              settings.chunksPerShard = SumPositive(settings.loadQueueBson)

\* C19 witness: two strategies, one with a count of 2 and one with a
\* negative count, give two queues.
C19_Witness ==
    /\ Survived
    /\ Len(settings.loadQueueBson) = 2
    /\ \E i \in 1..2 : settings.loadQueueBson[i].count < 0
    /\ settings.chunksPerShard = 2

\* C19 witness of the declaration order.
C19_WitnessOrder ==
    Survived /\ settings.loadQueues = <<"direct", "ram", "ram">>

(***************************************************************************)
(* Settings::process: the shard key document                               *)
(***************************************************************************)

\* process() has read the shard key document of a sharded setup.
KeysRead == cpc # "process" /\ settings.sharded /\ exitWhy # "noShardKey"

\* The errors process() ends on because of the shard key document.
KeyErrors == {"unknownKeyValue", "hashedMulti"}

\* Every field is 1, -1 or "hashed".
ValidValues(doc) ==
    \A i \in 1..Len(doc) : doc[i].hashed \/ doc[i].int \in {1, -1}

\* The hashed fields of a document.
HashedFields(doc) == {i \in 1..Len(doc) : doc[i].hashed}

\* C21 (as claimed): the shard key document of a sharded setup is accepted
\* when every value is 1, -1 or "hashed" and at most one field is hashed, a
\* compound key with one hashed field included, and rejected otherwise.
C21_AtMostOneHashed ==
    KeysRead =>
        (exitWhy \in KeyErrors <=>
            ~(/\ ValidValues(settings.shardKeysBson)
              /\ Cardinality(HashedFields(settings.shardKeysBson)) <= 1))

\* C21 (amended): the document is accepted when every value is 1, -1 or
\* "hashed" and a hashed field, if there is one, is the only field of the
\* document; it is rejected when a value is none of the three or when a
\* hashed field stands in a document of more than one field. An accepted
\* key is marked hashed exactly when its field is.
C21_HashedIsSingleField ==
    KeysRead =>
        /\ exitWhy \in KeyErrors <=>
              ~(/\ ValidValues(settings.shardKeysBson)
                /\ HashedFields(settings.shardKeysBson) # {} =>
                       Len(settings.shardKeysBson) = 1)
        /\ exitWhy \notin KeyErrors =>
              (settings.hashed <=> HashedFields(settings.shardKeysBson) # {})

\* C21 witness: a compound key with exactly one hashed field and a valid
\* direction beside it is refused.
C21_Witness ==
    /\ KeysRead
    /\ Len(settings.shardKeysBson) = 2
    /\ ValidValues(settings.shardKeysBson)
    /\ Cardinality(HashedFields(settings.shardKeysBson)) = 1
    /\ cpc = "exit"
    /\ exitWhy = "hashedMulti"

\* C21 witness of an accepted hashed key.
C21_WitnessAccepted ==
    KeysRead /\ settings.hashed /\ exitWhy \notin ProcessErrors

(***************************************************************************)
(* RoundRobin: where the cursor starts                                     *)
(***************************************************************************)

\* The element at index 1 mod n of the container, indices counted from 0.
SecondOrOnly(s) == s[(1 % Len(s)) + 1]

\* The cursor has not moved since the constructor or the last remove().
CursorReset ==
    /\ hist = <<>> => position = 1
    /\ hist # <<>> => hist[1] = SecondOrOnly(container)

\* A step from an empty container leaves the caller's variable alone, and a
\* next() on it returns false; a step that is a remove() puts the cursor on
\* the first element wherever it stood.
CursorStep ==
    /\ container = <<>> =>
          /\ rrRet'.val = rrRet.val
          /\ rrRet'.called => ~rrRet'.ok
    /\ (hist # <<>> /\ hist' = <<>>) => position' = 1

\* C22: the first next() after construction, and the first next() after any
\* remove(), of a present or an absent value, yields the element at index
\* 1 mod n of the elements the container then has; next() on an empty
\* container returns false and leaves the output argument as it was.
C22_CursorReset == []CursorReset /\ [][CursorStep]_vars

\* C22 witness: next() returned false on a container emptied by remove(),
\* the caller's variable still holding the element an earlier next() gave.
C22_Witness ==
    /\ rrRet.called
    /\ ~rrRet.ok
    /\ rrRet.val # NoElem
    /\ rrRet.val \in removed

\* C22 witness of the reset: a value that was never in the container has
\* been removed, and next() has since gone past the first call on two or
\* more elements.
C22_WitnessAbsent ==
    /\ removed \ Range(initial) # {}
    /\ Len(container) >= 2
    /\ Len(hist) >= 2

====
